---- MODULE Spec2Model ----
(***************************************************************************)
(* A model of app.py: the download job runner (download_video and its      *)
(* progress hook), the two shared dictionaries progress_data and           *)
(* download_cache guarded by progress_lock, the cleanup thread             *)
(* (cleanup_old_files), the /progress and /file handlers and the           *)
(* direct-proxy /download handler.                                         *)
(*                                                                         *)
(* Threads interleave at statement granularity wherever a statement        *)
(* touches shared state (the dictionaries, the download directory, the     *)
(* lock).  A `with progress_lock:` block whose body is one dictionary      *)
(* operation is a single step guarded by the lock being free; the two      *)
(* blocks with several statements (job completion, sweeper eviction) hold  *)
(* the lock across their steps.                                            *)
(***************************************************************************)
EXTENDS Integers, Sequences, FiniteSets, TLC

\* ------------------------------------------------------------- constants
MAX_FILE_AGE == 3600
CLEANUP_INTERVAL == 300

\* ---------------------------------------------------------------- bounds
\* The clock is observed at most MaxTicks times after the start.
MaxTicks == 2
\* Progress events the extraction engine emits per job, at most.
MaxEvents == 1
\* Chunks relayed per direct-proxy request, at most.
MaxChunks == 2

\* Job ids are strings, modelled as sequences of characters so that
\* str.startswith is a real prefix test.  The second id extends the first.
JobIds == { <<"a">>, <<"a", "b">> }
\* An id no job ever gets, for queries about unknown jobs.
UnknownId == <<"z">>
QueryIds == JobIds \cup {UnknownId}
NoJob == << >>
\* Between two observations the clock has advanced by a whole file lifetime
\* (which is also more than the sweeper's interval).
TickStep == MAX_FILE_AGE
\* Values of downloaded_bytes / total_bytes / total_bytes_estimate in an
\* event.  NoneVal stands for Python's None (or a missing total_bytes key).
NoneVal == 0 - 1
DownloadedValues == {1, 3}
TotalValues == {NoneVal, 0, 2}
\* Direct-proxy requests handled concurrently.
Requests == {1, 2}

\* Threads that can hold progress_lock.
Free == << >>
SweeperT == <<"sweeper">>
WorkerT(j) == <<"worker">> \o j

VARIABLES
    now,             \* time.time()
    files,           \* DOWNLOAD_FOLDER: file name -> [mtime]
    progress_data,   \* dict job_id -> record
    download_cache,  \* dict job_id -> artifact record
    lock,            \* holder of progress_lock, or Free
    pc,              \* per job: position of its download_video call
    nevents,         \* per job: progress events emitted by the running engine call
    downloaded_file, \* per job: local variable downloaded_file (NoJob once returned)
    exc,             \* per job: str(e) of the exception being handled ("" if none)
    spc,             \* sweeper position
    current_time,    \* sweeper local current_time
    todo,            \* sweeper: directory entries still to visit
    stale,           \* sweeper: stale job ids still to evict
    cur,             \* sweeper: job id whose cache entry was just deleted
    sleepStart,      \* sweeper: clock reading when time.sleep began
    ppc, pjob, pdata, plive,   \* /progress request
    fpc, fjob, fcache,         \* /file request
    xpc, conn, sent,           \* /download (direct proxy) requests
    swept,           \* history: job ids the sweeper has evicted
    cycles,          \* history: 1 once a sweeper cycle has completed
    post,            \* history: stores at the end of the last cycle
    quiet,           \* history: no other thread changed a store since
    track,           \* whether the job histories doneAt and last are recorded
    faulty,          \* whether the file system can fail a stat or an unlink
    formats,         \* get_video_info: info.get('formats') of the probed URL
    info,            \* get_video_info: the dict it returned (EmptyDict before)
    doneAt,          \* history, per job: clock reading when it became terminal
    last,            \* history, per job: the event the hook last received
    failed,          \* history: files whose handling raised in this sweep
    phist            \* history: values the polled job's record had since the lookup

poll == <<ppc, pjob, pdata, plive>>
fetch == <<fpc, fjob, fcache>>
proxy == <<xpc, conn, sent>>
sweeper == <<spc, current_time, todo, stale, cur, sleepStart>>
worker == <<pc, nevents, downloaded_file, exc>>
stores == <<files, progress_data, download_cache>>
hist == <<swept, cycles, post, quiet>>
env == <<track, faulty>>
probe == <<formats, info>>
aux == <<env, probe, doneAt, last, failed, phist>>
vars == <<now, stores, lock, worker, sweeper, poll, fetch, proxy, hist, aux>>

\* ------------------------------------------------------- dict operations
\* d[k] = v
Put(d, k, v) == [x \in DOMAIN d \cup {k} |-> IF x = k THEN v ELSE d[x]]
\* del d[k]
Del(d, k) == [x \in DOMAIN d \ {k} |-> d[x]]
\* dict.update: the fields of new overwrite or extend those of old
Update(old, new) ==
    [f \in DOMAIN old \cup DOMAIN new |-> IF f \in DOMAIN new THEN new[f] ELSE old[f]]
EmptyDict == [x \in {} |-> 0]

StartingRec == [status |-> "starting", percent |-> 0]
CompletedRec == [status |-> "completed", percent |-> 100]
ErrorRec(msg) == [status |-> "error", percent |-> 0, message |-> msg]
UnknownRec == [status |-> "unknown", percent |-> 0]
\* History: the hook has not been called (since the engine call began).
NoEvent ==
    [status |-> "none", downloaded_bytes |-> 0, total_bytes |-> 0 - 1,
     total_bytes_estimate |-> 0]

\* f"{job_id}.%(ext)s" once the engine has filled in the extension
FileName(j) == j \o <<".", "mp4">>
\* str.startswith
StartsWith(name, prefix) ==
    /\ Len(prefix) <= Len(name)
    /\ SubSeq(name, 1, Len(prefix)) = prefix

\* ------------------------------------------------------------------ Init
NoPost == [files |-> EmptyDict, progress_data |-> EmptyDict, download_cache |-> EmptyDict]

\* Everything but the progress records and the positions of the jobs, as
\* it is once the module has been loaded and the cleanup thread started.
Rest ==
    /\ now = 0
    /\ files = EmptyDict
    /\ download_cache = EmptyDict
    /\ lock = Free
    /\ nevents = [j \in JobIds |-> 0]
    /\ downloaded_file = [j \in JobIds |-> NoJob]
    /\ exc = [j \in JobIds |-> ""]
    /\ spc = "sleep"
    /\ current_time = 0
    /\ todo = {}
    /\ stale = {}
    /\ cur = NoJob
    /\ sleepStart = 0
    /\ ppc = "idle"
    /\ pjob = NoJob
    /\ pdata = EmptyDict
    /\ plive = FALSE
    /\ fpc = "idle"
    /\ fjob = NoJob
    /\ fcache = EmptyDict
    /\ xpc = [r \in Requests |-> "idle"]
    /\ conn = [r \in Requests |-> "none"]
    /\ sent = [r \in Requests |-> 0]
    /\ swept = {}
    /\ cycles = 0
    /\ post = NoPost
    /\ quiet = FALSE
    /\ info = EmptyDict
    /\ doneAt = [j \in JobIds |-> NoneVal]
    /\ last = [j \in JobIds |-> NoEvent]
    /\ failed = {}
    /\ phist = {}

\* The state of the process once the module has been loaded and the
\* cleanup thread started.
Loaded ==
    /\ progress_data = EmptyDict
    /\ pc = [j \in JobIds |-> "idle"]
    /\ Rest

\* No URL is probed, every stat and unlink succeeds, no job history is kept.
Init ==
    /\ Loaded
    /\ track = FALSE
    /\ faulty = FALSE
    /\ formats = << >>

\* History: a thread other than the sweeper changes a store, so the stores
\* are no longer those the last sweeper cycle left.
Disturb == quiet' = FALSE /\ post' = NoPost

\* ----------------------------------------------------------------- clock
Tick ==
    /\ now < MaxTicks * TickStep
    /\ now' = now + TickStep
    /\ UNCHANGED <<stores, lock, worker, sweeper, poll, fetch, proxy, hist, aux>>

\* ------------------------------------------------------------ job runner
\* The reference a /progress request holds stops aliasing progress_data[j]
\* once another dict object is stored under j (or the key is deleted).
Detached(j) == IF pjob = j THEN FALSE ELSE plive
\* History: rec is stored under j while a /progress request for j is
\* between its lookup and its answer.
Seen(j, rec) == IF ppc = "looked" /\ pjob = j THEN phist \cup {rec} ELSE phist
\* History: job j becomes terminal at the present clock reading.
Stamp(j) == IF track THEN [doneAt EXCEPT ![j] = now] ELSE doneAt
\* History: the hook of job j is called with d.
Note(j, d) == IF track THEN [last EXCEPT ![j] = d] ELSE last

\* The caller of download_video: a fresh job id is generated and the call
\* is handed to a thread of its own.  The record of the job is written by
\* download_video itself (Start).
Submit(j) ==
    /\ pc[j] = "idle"
    /\ pc' = [pc EXCEPT ![j] = "start"]
    /\ UNCHANGED <<now, stores, lock, nevents, downloaded_file, exc,
                   sweeper, poll, fetch, proxy, hist, aux>>

\* with progress_lock: progress_data[job_id] = {'status': 'starting', 'percent': 0}
Start(j) ==
    /\ pc[j] = "start"
    /\ lock = Free
    /\ progress_data' = Put(progress_data, j, StartingRec)
    /\ plive' = Detached(j)
    /\ pc' = [pc EXCEPT ![j] = "extract"]
    /\ phist' = Seen(j, StartingRec)
    /\ Disturb
    /\ UNCHANGED <<now, files, download_cache, lock, nevents, downloaded_file, exc,
                   sweeper, ppc, pjob, pdata, fetch, proxy, swept, cycles,
                   env, probe, doneAt, last, failed>>

\* The progress dictionaries yt-dlp hands to the hook.
DownloadingEvents ==
    [status : {"downloading"}, downloaded_bytes : DownloadedValues,
     total_bytes : TotalValues, total_bytes_estimate : TotalValues]
FinishedEvent ==
    [status |-> "finished", downloaded_bytes |-> 0, total_bytes |-> NoneVal,
     total_bytes_estimate |-> 0]
OtherEvent ==
    [status |-> "error", downloaded_bytes |-> 0, total_bytes |-> NoneVal,
     total_bytes_estimate |-> 0]
Events == DownloadingEvents \cup {FinishedEvent, OtherEvent}

\* d.get('total_bytes') or d.get('total_bytes_estimate', 0)
Total(d) ==
    IF d.total_bytes \notin {NoneVal, 0} THEN d.total_bytes ELSE d.total_bytes_estimate

\* int((downloaded / total) * 100) if total > 0 else 0.  The quotient is
\* computed in integers; Python's float product can fall one below it
\* (29/100*100 = 28.999...), never above, and not for the values used here.
Percent(downloaded, total) ==
    IF total > 0 THEN (downloaded * 100) \div total ELSE 0

\* The record the hook leaves under job_id, given the record it found
\* there (EmptyDict when it had to create one).  `total > 0` raises
\* TypeError when total is None; the hook's except clause swallows it.
Hooked(base, d) ==
    IF d.status = "downloading"
    THEN IF Total(d) = NoneVal
         THEN base
         ELSE Update(base, [status |-> "downloading",
                            percent |-> Percent(d.downloaded_bytes, Total(d)),
                            speed |-> 0, eta |-> 0])
    ELSE IF d.status = "finished"
         THEN Update(base, [status |-> "processing", percent |-> 99])
         ELSE base

\* progress_data[job_id], after `if job_id not in progress_data:
\* progress_data[job_id] = {}`
ProgressOr(j) == IF j \in DOMAIN progress_data THEN progress_data[j] ELSE EmptyDict

\* Mutant: the engine also reports progress after its call has returned
\* (a postprocessing stage running on after download_video is done).
HookLate(j) ==
    /\ pc[j] \in {"extract", "completed", "failed"}
    /\ lock = Free
    /\ nevents[j] < MaxEvents
    /\ \E d \in Events :
          LET present == j \in DOMAIN progress_data
              base == ProgressOr(j)
              rec == Hooked(base, d)
          IN /\ progress_data' = Put(progress_data, j, rec)
             /\ pdata' = IF ppc = "looked" /\ plive /\ pjob = j /\ present
                         THEN rec ELSE pdata
             /\ plive' = IF present THEN plive ELSE Detached(j)
             /\ phist' = Seen(j, rec)
             /\ last' = Note(j, d)
    /\ nevents' = [nevents EXCEPT ![j] = @ + 1]
    /\ Disturb
    /\ UNCHANGED <<now, files, download_cache, lock, pc, downloaded_file, exc,
                   sweeper, ppc, pjob, fetch, proxy, swept, cycles,
                   env, probe, doneAt, failed>>

\* Mutant: the update writes one field at a time, and a response being
\* serialized from the same dict gets the new status with the old percent.
HookTorn(j) ==
    /\ pc[j] = "extract"
    /\ lock = Free
    /\ nevents[j] < MaxEvents
    /\ \E d \in Events :
          LET present == j \in DOMAIN progress_data
              base == ProgressOr(j)
              rec == Hooked(base, d)
          IN /\ progress_data' = Put(progress_data, j, rec)
             /\ pdata' = IF ppc = "looked" /\ plive /\ pjob = j /\ present
                         THEN Update(base, [status |-> rec.status]) ELSE pdata
             /\ plive' = IF present THEN plive ELSE Detached(j)
             /\ phist' = Seen(j, rec)
             /\ last' = Note(j, d)
    /\ nevents' = [nevents EXCEPT ![j] = @ + 1]
    /\ Disturb
    /\ UNCHANGED <<now, files, download_cache, lock, pc, downloaded_file, exc,
                   sweeper, ppc, pjob, fetch, proxy, swept, cycles,
                   env, probe, doneAt, failed>>

\* hook(d), called by the engine inside ydl.extract_info.  The record is
\* updated by one dict.update call, and jsonify reads a dict with one
\* sorted(d.items()) call: neither is interleaved with the other.
Hook(j) ==
    /\ pc[j] = "extract"
    /\ lock = Free
    /\ nevents[j] < MaxEvents
    /\ \E d \in Events :
          LET present == j \in DOMAIN progress_data
              base == ProgressOr(j)
              rec == Hooked(base, d)
          IN /\ progress_data' = Put(progress_data, j, rec)
             /\ pdata' = IF ppc = "looked" /\ plive /\ pjob = j /\ present
                         THEN rec ELSE pdata
             /\ plive' = IF present THEN plive ELSE Detached(j)
             /\ phist' = Seen(j, rec)
             /\ last' = Note(j, d)
    /\ nevents' = [nevents EXCEPT ![j] = @ + 1]
    /\ Disturb
    /\ UNCHANGED <<now, files, download_cache, lock, pc, downloaded_file, exc,
                   sweeper, ppc, pjob, fetch, proxy, swept, cycles,
                   env, probe, doneAt, failed>>

\* ydl.extract_info(url, download=True) returns: the engine has written
\* its output under the job's template, or has written nothing.
ExtractOk(j) ==
    /\ pc[j] = "extract"
    /\ \E wrote \in BOOLEAN :
          files' = IF wrote
                   THEN Put(files, FileName(j), [mtime |-> now])
                   ELSE files
    /\ pc' = [pc EXCEPT ![j] = "find"]
    /\ nevents' = [nevents EXCEPT ![j] = 0]
    /\ last' = [last EXCEPT ![j] = NoEvent]
    /\ Disturb
    /\ UNCHANGED <<now, progress_data, download_cache, lock, downloaded_file,
                   exc, sweeper, poll, fetch, proxy, swept, cycles,
                   env, probe, doneAt, failed, phist>>

\* ydl.extract_info raises (or returns None, and info.get raises)
ExtractFail(j) ==
    /\ pc[j] = "extract"
    /\ pc' = [pc EXCEPT ![j] = "except"]
    /\ exc' = [exc EXCEPT ![j] = "extraction failed"]
    /\ nevents' = [nevents EXCEPT ![j] = 0]
    /\ last' = [last EXCEPT ![j] = NoEvent]
    /\ UNCHANGED <<now, stores, lock, downloaded_file,
                   sweeper, poll, fetch, proxy, hist,
                   env, probe, doneAt, failed, phist>>

\* for f in DOWNLOAD_FOLDER.iterdir(): if f.name.startswith(job_id): ... break
\* The directory is listed in no particular order.
Matches(j) == {n \in DOMAIN files : StartsWith(n, j)}

FindFile(j) ==
    /\ pc[j] = "find"
    /\ IF Matches(j) = {}
       THEN /\ pc' = [pc EXCEPT ![j] = "except"]
            /\ exc' = [exc EXCEPT ![j] = "Downloaded file not found"]
            /\ UNCHANGED downloaded_file
       ELSE /\ \E n \in Matches(j) :
                  downloaded_file' = [downloaded_file EXCEPT ![j] = n]
            /\ pc' = [pc EXCEPT ![j] = "complete"]
            /\ UNCHANGED exc
    /\ UNCHANGED <<now, stores, lock, nevents, sweeper, poll, fetch, proxy, hist, aux>>

\* with progress_lock:   (line 266)
CompleteAcquire(j) ==
    /\ pc[j] = "complete"
    /\ lock = Free
    /\ lock' = WorkerT(j)
    /\ pc' = [pc EXCEPT ![j] = "c_stat"]
    /\ UNCHANGED <<now, stores, nevents, downloaded_file, exc,
                   sweeper, poll, fetch, proxy, hist, aux>>

\* Mutant: the lock is taken with acquire() and released after the block,
\* so a raise inside the block leaves it held.
CompleteStatHolds(j) ==
    /\ pc[j] = "c_stat"
    /\ lock = WorkerT(j)
    /\ IF downloaded_file[j] \in DOMAIN files
       THEN /\ pc' = [pc EXCEPT ![j] = "c_cache"]
            /\ UNCHANGED exc
       ELSE /\ pc' = [pc EXCEPT ![j] = "except"]
            /\ exc' = [exc EXCEPT ![j] = "No such file or directory"]
    /\ UNCHANGED <<now, stores, lock, nevents, downloaded_file,
                   sweeper, poll, fetch, proxy, hist, aux>>

\* downloaded_file.stat().st_size, evaluated while the lock is held; it
\* raises FileNotFoundError when the file is gone, which leaves the with
\* block (releasing the lock) before anything is stored.
CompleteStat(j) ==
    /\ pc[j] = "c_stat"
    /\ lock = WorkerT(j)
    /\ IF downloaded_file[j] \in DOMAIN files
       THEN /\ pc' = [pc EXCEPT ![j] = "c_cache"]
            /\ UNCHANGED <<lock, exc>>
       ELSE /\ pc' = [pc EXCEPT ![j] = "except"]
            /\ exc' = [exc EXCEPT ![j] = "No such file or directory"]
            /\ lock' = Free
    /\ UNCHANGED <<now, stores, nevents, downloaded_file,
                   sweeper, poll, fetch, proxy, hist, aux>>

\* The artifact record of lines 267-273.
Artifact(path, t) ==
    [filepath |-> path, filename |-> "title.mp4", size |-> 1,
     timestamp |-> t, mimetype |-> "video/mp4"]

\* Mutant: the artifact is stored in a with block of its own, so the lock
\* is released before the completed status is written.
CompleteCacheUnlocked(j) ==
    /\ pc[j] = "c_cache"
    /\ lock = WorkerT(j)
    /\ download_cache' = Put(download_cache, j, Artifact(downloaded_file[j], now))
    /\ pc' = [pc EXCEPT ![j] = "c_progress"]
    /\ lock' = Free
    /\ Disturb
    /\ UNCHANGED <<now, files, progress_data, nevents, downloaded_file, exc,
                   sweeper, poll, fetch, proxy, swept, cycles, aux>>

\* download_cache[job_id] = {...}
CompleteCache(j) ==
    /\ pc[j] = "c_cache"
    /\ lock = WorkerT(j)
    /\ download_cache' = Put(download_cache, j, Artifact(downloaded_file[j], now))
    /\ pc' = [pc EXCEPT ![j] = "c_progress"]
    /\ Disturb
    /\ UNCHANGED <<now, files, progress_data, lock, nevents, downloaded_file, exc,
                   sweeper, poll, fetch, proxy, swept, cycles, aux>>

\* progress_data[job_id] = {'status': 'completed', 'percent': 100}, and
\* the end of the with block
CompleteProgress(j) ==
    /\ pc[j] = "c_progress"
    /\ lock = WorkerT(j)
    /\ progress_data' = Put(progress_data, j, CompletedRec)
    /\ plive' = Detached(j)
    /\ lock' = Free
    /\ pc' = [pc EXCEPT ![j] = "completed"]
    /\ downloaded_file' = [downloaded_file EXCEPT ![j] = NoJob]
    /\ phist' = Seen(j, CompletedRec)
    /\ doneAt' = Stamp(j)
    /\ Disturb
    /\ UNCHANGED <<now, files, download_cache, nevents, exc,
                   sweeper, ppc, pjob, pdata, fetch, proxy, swept, cycles,
                   env, probe, last, failed>>

\* Mutant: the handler merges the error into the record it finds instead
\* of replacing it, so the last percent survives.
ExceptMerges(j) ==
    /\ pc[j] = "except"
    /\ lock = Free
    /\ progress_data' = Put(progress_data, j,
                            Update(ProgressOr(j), [status |-> "error", message |-> exc[j]]))
    /\ plive' = Detached(j)
    /\ pc' = [pc EXCEPT ![j] = "failed"]
    /\ downloaded_file' = [downloaded_file EXCEPT ![j] = NoJob]
    /\ exc' = [exc EXCEPT ![j] = ""]
    /\ phist' = Seen(j, progress_data'[j])
    /\ doneAt' = Stamp(j)
    /\ Disturb
    /\ UNCHANGED <<now, files, download_cache, lock, nevents,
                   sweeper, ppc, pjob, pdata, fetch, proxy, swept, cycles,
                   env, probe, last, failed>>

\* except Exception as e: with progress_lock: progress_data[job_id] = {error}
Except(j) ==
    /\ pc[j] = "except"
    /\ lock = Free
    /\ progress_data' = Put(progress_data, j, ErrorRec(exc[j]))
    /\ plive' = Detached(j)
    /\ pc' = [pc EXCEPT ![j] = "failed"]
    /\ downloaded_file' = [downloaded_file EXCEPT ![j] = NoJob]
    /\ exc' = [exc EXCEPT ![j] = ""]
    /\ phist' = Seen(j, progress_data'[j])
    /\ doneAt' = Stamp(j)
    /\ Disturb
    /\ UNCHANGED <<now, files, download_cache, lock, nevents,
                   sweeper, ppc, pjob, pdata, fetch, proxy, swept, cycles,
                   env, probe, last, failed>>

\* --------------------------------------------------------------- sweeper
\* time.sleep(CLEANUP_INTERVAL); current_time = time.time();
\* DOWNLOAD_FOLDER.iterdir() lists the directory
\* Where the file system can fail, iterdir() may raise: the outer except
\* clause logs it and the loop goes back to time.sleep.
SweepWake ==
    /\ spc = "sleep"
    /\ now >= sleepStart + CLEANUP_INTERVAL
    /\ \E raises \in (IF faulty THEN BOOLEAN ELSE {FALSE}) :
          IF raises
          THEN /\ sleepStart' = now
               /\ UNCHANGED <<spc, current_time, todo>>
          ELSE /\ current_time' = now
               /\ todo' = DOMAIN files
               /\ spc' = "scan"
               /\ UNCHANGED sleepStart
    /\ UNCHANGED <<now, stores, lock, worker, stale, cur,
                   poll, fetch, proxy, hist, aux>>

\* filepath.stat().st_mtime is older than MAX_FILE_AGE at current_time
FileStale(f, t) == t - files[f].mtime > MAX_FILE_AGE

\* Mutant: a file is unlinked as soon as its age reaches MAX_FILE_AGE.
SweepFileInclusive ==
    /\ spc = "scan"
    /\ \E f \in todo :
          /\ files' = IF f \in DOMAIN files /\ current_time - files[f].mtime >= MAX_FILE_AGE
                      THEN Del(files, f) ELSE files
          /\ todo' = todo \ {f}
    /\ UNCHANGED <<now, progress_data, download_cache, lock, worker, spc, current_time,
                   stale, cur, sleepStart, poll, fetch, proxy, hist, aux>>

\* One iteration of the loop over the directory: is_file, stat, unlink.
\* Mutant: the try block is around the whole loop, so a raise ends the scan.
SweepFileAborts ==
    /\ spc = "scan"
    /\ \E f \in todo :
          \E raises \in (IF faulty THEN BOOLEAN ELSE {FALSE}) :
              /\ files' = IF ~raises /\ f \in DOMAIN files /\ FileStale(f, current_time)
                          THEN Del(files, f) ELSE files
              /\ failed' = IF raises THEN failed \cup {f} ELSE failed
              /\ todo' = IF raises THEN {} ELSE todo \ {f}
    /\ UNCHANGED <<now, progress_data, download_cache, lock, worker, spc, current_time,
                   stale, cur, sleepStart, poll, fetch, proxy, hist,
                   env, probe, doneAt, last, phist>>

\* stat() or unlink() may raise where the file system can fail; the inner
\* except clause logs it and the loop goes on to the next entry.
SweepFile ==
    /\ spc = "scan"
    /\ \E f \in todo :
          \E raises \in (IF faulty THEN BOOLEAN ELSE {FALSE}) :
              /\ files' = IF ~raises /\ f \in DOMAIN files /\ FileStale(f, current_time)
                          THEN Del(files, f) ELSE files
              /\ failed' = IF raises THEN failed \cup {f} ELSE failed
              /\ todo' = todo \ {f}
    /\ UNCHANGED <<now, progress_data, download_cache, lock, worker, spc, current_time,
                   stale, cur, sleepStart, poll, fetch, proxy, hist,
                   env, probe, doneAt, last, phist>>

\* current_time - d.get("timestamp", 0) > MAX_FILE_AGE
EntryStale(j, t) == t - download_cache[j].timestamp > MAX_FILE_AGE

\* Mutant: an entry counts as stale only after twice the file lifetime.
SweepAcquireLax ==
    /\ spc = "scan"
    /\ todo = {}
    /\ lock = Free
    /\ lock' = SweeperT
    /\ stale' = {j \in DOMAIN download_cache :
                    current_time - download_cache[j].timestamp > 2 * MAX_FILE_AGE}
    /\ spc' = "evict"
    /\ UNCHANGED <<now, stores, worker, current_time, todo, cur, sleepStart,
                   poll, fetch, proxy, hist, aux>>

\* with progress_lock: stale = [j for j, d in download_cache.items() if ...]
SweepAcquire ==
    /\ spc = "scan"
    /\ todo = {}
    /\ lock = Free
    /\ lock' = SweeperT
    /\ stale' = {j \in DOMAIN download_cache : EntryStale(j, current_time)}
    /\ spc' = "evict"
    /\ UNCHANGED <<now, stores, worker, current_time, todo, cur, sleepStart,
                   poll, fetch, proxy, hist, aux>>

\* del download_cache[job_id]
SweepDelCache ==
    /\ spc = "evict"
    /\ lock = SweeperT
    /\ cur = NoJob
    /\ \E j \in stale :
          /\ download_cache' = Del(download_cache, j)
          /\ cur' = j
    /\ UNCHANGED <<now, files, progress_data, lock, worker, spc, current_time, todo,
                   stale, sleepStart, poll, fetch, proxy, hist, aux>>

\* Mutant: the sweeper forgets the job's progress entry.
SweepDelProgressKeeps ==
    /\ spc = "evict"
    /\ lock = SweeperT
    /\ cur # NoJob
    /\ stale' = stale \ {cur}
    /\ swept' = swept \cup {cur}
    /\ cur' = NoJob
    /\ UNCHANGED <<now, stores, lock, worker, spc, current_time, todo,
                   sleepStart, poll, fetch, proxy, cycles, post, quiet, aux>>

\* if job_id in progress_data: del progress_data[job_id]
SweepDelProgress ==
    /\ spc = "evict"
    /\ lock = SweeperT
    /\ cur # NoJob
    /\ progress_data' = Del(progress_data, cur)
    /\ plive' = Detached(cur)
    /\ stale' = stale \ {cur}
    /\ swept' = swept \cup {cur}
    /\ cur' = NoJob
    /\ UNCHANGED <<now, files, download_cache, lock, worker, spc, current_time, todo,
                   sleepStart, ppc, pjob, pdata, fetch, proxy, cycles, post, quiet, aux>>

\* The with block ends and the loop goes back to time.sleep.
SweepRelease ==
    /\ spc = "evict"
    /\ lock = SweeperT
    /\ stale = {}
    /\ cur = NoJob
    /\ lock' = Free
    /\ spc' = "sleep"
    /\ sleepStart' = now
    /\ current_time' = 0
    /\ cycles' = 1
    /\ post' = [files |-> files, progress_data |-> progress_data,
                download_cache |-> download_cache]
    /\ quiet' = TRUE
    /\ failed' = {}
    /\ UNCHANGED <<now, stores, worker, todo, stale, cur,
                   poll, fetch, proxy, swept,
                   env, probe, doneAt, last, phist>>

\* ------------------------------------------------------------- /progress
\* progress_data.get(job_id, {'status': 'unknown', 'percent': 0})
ProgressGet(j) == IF j \in DOMAIN progress_data THEN progress_data[j] ELSE UnknownRec

\* Mutant: the lookup is a setdefault, which stores the placeholder.
PollLookupSetdefault(j) ==
    /\ ppc = "idle"
    /\ lock = Free
    /\ pjob' = j
    /\ pdata' = ProgressGet(j)
    /\ progress_data' = Put(progress_data, j, ProgressGet(j))
    /\ plive' = TRUE
    /\ ppc' = "looked"
    /\ phist' = {ProgressGet(j)}
    /\ UNCHANGED <<now, files, download_cache, lock, worker, sweeper, fetch, proxy, hist,
                   env, probe, doneAt, last, failed>>

\* with progress_lock: data = progress_data.get(job_id, {unknown})
PollLookup(j) ==
    /\ ppc = "idle"
    /\ lock = Free
    /\ pjob' = j
    /\ pdata' = ProgressGet(j)
    /\ plive' = (j \in DOMAIN progress_data)
    /\ ppc' = "looked"
    /\ phist' = {ProgressGet(j)}
    /\ UNCHANGED <<now, stores, lock, worker, sweeper, fetch, proxy, hist,
                   env, probe, doneAt, last, failed>>

\* return jsonify(data): the response is the dict as it stands now
PollRespond ==
    /\ ppc = "looked"
    /\ ppc' = "idle"
    /\ pjob' = NoJob
    /\ pdata' = EmptyDict
    /\ plive' = FALSE
    /\ phist' = {}
    /\ UNCHANGED <<now, stores, lock, worker, sweeper, fetch, proxy, hist,
                   env, probe, doneAt, last, failed>>

\* ----------------------------------------------------------------- /file
\* download_cache.get(job_id): None is the empty record
CacheGet(j) == IF j \in DOMAIN download_cache THEN download_cache[j] ELSE EmptyDict
\* filepath.exists()
Exists(path) == path \in DOMAIN files

\* with progress_lock: cache = download_cache.get(job_id);
\* if not cache: return 404
FetchLookup(j) ==
    /\ fpc = "idle"
    /\ lock = Free
    /\ fjob' = j
    /\ fcache' = CacheGet(j)
    /\ fpc' = IF CacheGet(j) = EmptyDict THEN "r404" ELSE "check"
    /\ UNCHANGED <<now, stores, lock, worker, sweeper, poll, proxy, hist, aux>>

\* if not filepath.exists(): return 404; otherwise the Response is built
\* around the generator, which has not run yet, and returned
FetchExists ==
    /\ fpc = "check"
    /\ fpc' = IF Exists(fcache.filepath) THEN "respond" ELSE "r404"
    /\ UNCHANGED <<now, stores, lock, worker, sweeper, poll, fjob, fcache, proxy, hist, aux>>

\* The server iterates the response: generate() runs open(filepath, 'rb'),
\* outside file()'s try block.  FileNotFoundError there is raised into the
\* server after file() has returned its 200 response.
FetchOpen ==
    /\ fpc = "respond"
    /\ fpc' = IF Exists(fcache.filepath) THEN "streaming" ELSE "broken"
    /\ UNCHANGED <<now, stores, lock, worker, sweeper, poll, fjob, fcache, proxy, hist, aux>>

\* The request is over (an open file keeps streaming after an unlink).
FetchEnd ==
    /\ fpc \in {"r404", "streaming", "broken"}
    /\ fpc' = "idle"
    /\ fjob' = NoJob
    /\ fcache' = EmptyDict
    /\ UNCHANGED <<now, stores, lock, worker, sweeper, poll, proxy, hist, aux>>

\* ------------------------------------------------- /download (direct proxy)
\* remote = requests.get(format_url, stream=True, timeout=15): no
\* connection (it raises), or a response with a good or a bad status
ProxyOpen(r) ==
    /\ xpc[r] = "idle"
    /\ \E outcome \in {"raise", "ok", "bad"} :
          /\ xpc' = [xpc EXCEPT ![r] = IF outcome = "raise" THEN "r500" ELSE outcome]
          /\ conn' = [conn EXCEPT ![r] = IF outcome = "raise" THEN "none" ELSE "open"]
    /\ UNCHANGED <<now, stores, lock, worker, sweeper, poll, fetch, sent, hist, aux>>

\* remote.raise_for_status(): on a bad status it raises into the handler's
\* except clause, which returns the 500 body; nothing closes remote.
ProxyRaiseForStatus(r) ==
    /\ xpc[r] \in {"ok", "bad"}
    /\ xpc' = [xpc EXCEPT ![r] = IF xpc[r] = "ok" THEN "respond" ELSE "r500"]
    /\ UNCHANGED <<now, stores, lock, worker, sweeper, poll, fetch, conn, sent, hist, aux>>

\* generate() yields the next chunk of remote.iter_content
ProxyChunk(r) ==
    /\ xpc[r] \in {"respond", "relay"}
    /\ sent[r] < MaxChunks
    /\ xpc' = [xpc EXCEPT ![r] = "relay"]
    /\ sent' = [sent EXCEPT ![r] = @ + 1]
    /\ UNCHANGED <<now, stores, lock, worker, sweeper, poll, fetch, conn, hist, aux>>

\* iter_content is exhausted, or raises: the finally clause closes remote
ProxyFinish(r) ==
    /\ xpc[r] \in {"respond", "relay"}
    /\ \E how \in {"done", "upstream_error"} : xpc' = [xpc EXCEPT ![r] = how]
    /\ conn' = [conn EXCEPT ![r] = "closed"]
    /\ UNCHANGED <<now, stores, lock, worker, sweeper, poll, fetch, sent, hist, aux>>

\* The client goes away and the server closes the response iterable.  A
\* generator suspended at its yield gets GeneratorExit and runs its finally
\* clause; one that was never started runs nothing.
ProxyClientAbort(r) ==
    /\ xpc[r] \in {"respond", "relay"}
    /\ conn' = [conn EXCEPT ![r] = IF xpc[r] = "relay" THEN "closed" ELSE conn[r]]
    /\ xpc' = [xpc EXCEPT ![r] = "aborted"]
    /\ UNCHANGED <<now, stores, lock, worker, sweeper, poll, fetch, sent, hist, aux>>

\* ------------------------------------------------- get_video_info (probe)
\* The caps of the two lists: unique_video[:15], unique_audio[:10]
VIDEO_CAP == 15
AUDIO_CAP == 10
\* Entries of info['formats'] placed, in any order and with repetition, in
\* front of the ladders below.
MaxFormats == 2

\* A format as yt-dlp reports it.  height is an integer (0 when absent);
\* abr is a float, held in tenths of a kbps (1285 is 128.5; 0 when absent).
\* ext and filesize are copied through unchanged and left out.
Fmt(id, v, a, h, r) ==
    [format_id |-> id, vcodec |-> v, acodec |-> a, height |-> h, abr |-> r]
FormatPool ==
    { Fmt("v1", "avc1", "mp4a", 720, 0),
      Fmt("v2", "avc1", "mp4a", 720, 0),
      Fmt("v3", "avc1", "mp4a", 1080, 0),
      Fmt("v4", "avc1", "none", 2160, 0),
      Fmt("v5", "avc1", "mp4a", 0, 1280),
      Fmt("a1", "none", "mp4a", 0, 1280),
      Fmt("a2", "none", "mp4a", 0, 1285),
      Fmt("a3", "none", "mp4a", 0, 5),
      Fmt("a4", "none", "mp4a", 0, 0) }
\* n muxed formats of n different heights, lowest first
VideoLadder(n) == [i \in 1..n |-> Fmt("lv", "avc1", "mp4a", 100 + 10 * i, 0)]
\* n audio-only formats of n different bitrates, highest first
AudioLadder(n) == [i \in 1..n |-> Fmt("la", "none", "mp4a", 0, 10 * (40 + n - i))]
\* Sequences over S of length at most n
RECURSIVE SeqsUpTo(_, _)
SeqsUpTo(S, n) ==
    IF n = 0 THEN { << >> }
    ELSE LET shorter == SeqsUpTo(S, n - 1)
         IN shorter \cup { Append(q, x) : q \in shorter, x \in S }
\* The format lists probed: a few formats in any order, then a ladder of
\* each kind that is empty or one longer than the cap of its list.
ProbeInputs ==
    { head \o VideoLadder(nv) \o AudioLadder(na) :
        head \in SeqsUpTo(FormatPool, MaxFormats),
        nv \in {0, VIDEO_CAP + 1}, na \in {0, AUDIO_CAP + 1} }

\* str(n) for n >= 0, as a sequence of characters
DigitChar == <<"0", "1", "2", "3", "4", "5", "6", "7", "8", "9">>
RECURSIVE Str(_)
Str(n) == IF n < 10 THEN <<DigitChar[n + 1]>>
          ELSE Append(Str(n \div 10), DigitChar[(n % 10) + 1])
\* int(s) for a string of decimal digits
DigitValue(c) == CHOOSE v \in 0..9 : DigitChar[v + 1] = c
RECURSIVE Int_(_)
Int_(s) == IF Len(s) = 1 THEN DigitValue(s[1])
           ELSE 10 * Int_(SubSeq(s, 1, Len(s) - 1)) + DigitValue(s[Len(s)])
\* s.replace(old, ''): every occurrence of old is dropped, left to right
RECURSIVE Replace(_, _)
Replace(s, old) ==
    IF Len(s) < Len(old) THEN s
    ELSE IF SubSeq(s, 1, Len(old)) = old
         THEN Replace(SubSeq(s, Len(old) + 1, Len(s)), old)
         ELSE <<s[1]>> \o Replace(Tail(s), old)

\* f"{height}p" and f"{int(abr)}kbps"
VideoQuality(fmt) == Str(fmt.height) \o <<"p">>
AudioQuality(fmt) == Str(fmt.abr \div 10) \o <<"k", "b", "p", "s">>
\* the two branches of the loop over info.get('formats', [])
IsVideo(fmt) == fmt.vcodec # "none" /\ fmt.acodec # "none" /\ fmt.height # 0
IsAudio(fmt) == ~IsVideo(fmt) /\ fmt.acodec # "none" /\ fmt.vcodec = "none" /\ fmt.abr # 0
Entry(fmt, q) == [format_id |-> fmt.format_id, quality |-> q]
RECURSIVE Collect(_, _)
Collect(fs, video) ==
    IF fs = << >> THEN << >>
    ELSE LET fmt == Head(fs)
             rest == Collect(Tail(fs), video)
         IN IF video /\ IsVideo(fmt) THEN <<Entry(fmt, VideoQuality(fmt))>> \o rest
            ELSE IF ~video /\ IsAudio(fmt) THEN <<Entry(fmt, AudioQuality(fmt))>> \o rest
            ELSE rest

\* A deduplication that keeps the last entry of each quality label.
RECURSIVE UniqueKeepsLast(_, _)
UniqueKeepsLast(es, seen) ==
    IF es = << >> THEN << >>
    ELSE IF \E k \in 2..Len(es) : es[k].quality = Head(es).quality
         THEN UniqueKeepsLast(Tail(es), seen)
         ELSE <<Head(es)>> \o UniqueKeepsLast(Tail(es), seen)

\* for fmt in ...: if key not in seen: seen.add(key); unique.append(fmt)
RECURSIVE Unique(_, _)
Unique(es, seen) ==
    IF es = << >> THEN << >>
    ELSE IF Head(es).quality \in seen
         THEN Unique(Tail(es), seen)
         ELSE <<Head(es)>> \o Unique(Tail(es), seen \cup {Head(es).quality})

\* the two sort keys
VideoKey(e) == Int_(Replace(e.quality, <<"p">>))
AudioKey(e) == Int_(Replace(e.quality, <<"k", "b", "p", "s">>))
Key(e, video) == IF video THEN VideoKey(e) ELSE AudioKey(e)
\* list.sort(key=..., reverse=True): descending, entries of equal key
\* staying in their original order
RECURSIVE Insert(_, _, _)
Insert(sorted, e, video) ==
    IF sorted = << >> THEN <<e>>
    ELSE IF Key(Head(sorted), video) >= Key(e, video)
         THEN <<Head(sorted)>> \o Insert(Tail(sorted), e, video)
         ELSE <<e>> \o sorted
RECURSIVE Sort(_, _)
Sort(es, video) ==
    IF es = << >> THEN << >>
    ELSE Insert(Sort(SubSeq(es, 1, Len(es) - 1), video), es[Len(es)], video)
\* xs[:n]
Slice(xs, n) == SubSeq(xs, 1, IF Len(xs) < n THEN Len(xs) ELSE n)

\* get_video_info(url), the engine having reported `formats`
GetVideoInfo ==
    /\ formats # << >>
    /\ info = EmptyDict
    /\ info' = [video_formats |-> Slice(Sort(Unique(Collect(formats, TRUE), {}), TRUE), VIDEO_CAP),
                audio_formats |-> Slice(Sort(Unique(Collect(formats, FALSE), {}), FALSE), AUDIO_CAP)]
    /\ UNCHANGED <<now, stores, lock, worker, sweeper, poll, fetch, proxy, hist,
                   env, formats, doneAt, last, failed, phist>>

\* -------------------------------------------------------- specifications
WorkerStep(j) ==
        \/ Submit(j)
        \/ Start(j)
        \/ Hook(j)
        \/ ExtractOk(j)
        \/ ExtractFail(j)
        \/ FindFile(j)
        \/ CompleteAcquire(j)
        \/ CompleteStat(j)
        \/ CompleteCache(j)
        \/ CompleteProgress(j)
        \/ Except(j)

WorkerNext == \E j \in JobIds : WorkerStep(j)
\* The job the reader specifications run.
ReaderJobs == { <<"a">> }
OneWorkerNext == \E j \in ReaderJobs : WorkerStep(j)

SweeperNext ==
    \/ SweepWake
    \/ SweepFile
    \/ SweepAcquire
    \/ SweepDelCache
    \/ SweepDelProgress
    \/ SweepRelease

PollNext ==
    \/ \E j \in QueryIds : PollLookup(j)
    \/ PollRespond

FetchNext ==
    \/ \E j \in QueryIds : FetchLookup(j)
    \/ FetchExists
    \/ FetchOpen
    \/ FetchEnd

ProxyNext ==
    \E r \in Requests :
        \/ ProxyOpen(r)
        \/ ProxyRaiseForStatus(r)
        \/ ProxyChunk(r)
        \/ ProxyFinish(r)
        \/ ProxyClientAbort(r)

\* Jobs, the sweeper and the two kinds of reader, on one clock.
Next == Tick \/ WorkerNext \/ SweeperNext
Spec == Init /\ [][Next]_vars

NextPoll == Tick \/ OneWorkerNext \/ SweeperNext \/ PollNext
SpecPoll == Init /\ [][NextPoll]_vars

NextFetch == Tick \/ OneWorkerNext \/ SweeperNext \/ FetchNext
SpecFetch == Init /\ [][NextFetch]_vars

\* The direct-proxy handler shares no state with the rest.
SpecProxy == Init /\ [][ProxyNext]_vars

\* The jobs and the sweeper, with the histories doneAt and last recorded.
InitTrack ==
    /\ Loaded
    /\ track = TRUE
    /\ faulty = FALSE
    /\ formats = << >>
SpecTrack == InitTrack /\ [][Next]_vars

\* The jobs and the sweeper on a file system whose calls can fail (a file
\* held open elsewhere, a directory that cannot be read).
InitFaulty ==
    /\ Loaded
    /\ track = FALSE
    /\ faulty = TRUE
    /\ formats = << >>
\* Progress events play no part in a sweep: the engine stays silent here.
SilentWorkerNext ==
    \E j \in JobIds :
        \/ Submit(j)
        \/ Start(j)
        \/ ExtractOk(j)
        \/ ExtractFail(j)
        \/ FindFile(j)
        \/ CompleteAcquire(j)
        \/ CompleteStat(j)
        \/ CompleteCache(j)
        \/ CompleteProgress(j)
        \/ Except(j)
NextFaulty == Tick \/ SilentWorkerNext \/ SweeperNext
SpecFaulty == InitFaulty /\ [][NextFaulty]_vars

\* A job, the sweeper and both readers, every thread being scheduled again
\* and again.  A thread that is not waiting for the lock takes its next
\* step (weak fairness); a thread waiting for the lock gets it if the lock
\* is free again and again (strong fairness).  The engine call ends, one
\* way or the other.  No request is ever required to arrive, and the
\* sweeper is only required to leave its eviction block.  The clients ask
\* about the job that runs.
ClientNext ==
    \/ \E j \in ReaderJobs : PollLookup(j) \/ FetchLookup(j)
    \/ PollRespond
    \/ FetchExists
    \/ FetchOpen
    \/ FetchEnd
NextLive == Tick \/ OneWorkerNext \/ SweeperNext \/ ClientNext
Fairness ==
    /\ \A j \in ReaderJobs :
          /\ SF_vars(Start(j))
          /\ WF_vars(ExtractOk(j) \/ ExtractFail(j))
          /\ WF_vars(FindFile(j))
          /\ SF_vars(CompleteAcquire(j))
          /\ WF_vars(CompleteStat(j))
          /\ WF_vars(CompleteCache(j))
          /\ WF_vars(CompleteProgress(j))
          /\ SF_vars(Except(j))
    /\ WF_vars(SweepDelCache)
    /\ WF_vars(SweepDelProgress)
    /\ WF_vars(SweepRelease)
SpecLive == Init /\ [][NextLive]_vars /\ Fairness

\* The hook on its own: the engine calls hook(d) for job ids whose record
\* in progress_data is the starting one or one an earlier call has left,
\* and for job ids that have none.
HookBases ==
    { StartingRec,
      Hooked(StartingRec, [status |-> "downloading", downloaded_bytes |-> 1,
                           total_bytes |-> 2, total_bytes_estimate |-> NoneVal]),
      Hooked(StartingRec, FinishedEvent) }
HookStores == UNION { [S -> HookBases] : S \in SUBSET JobIds }
InitHook ==
    /\ progress_data \in HookStores
    /\ pc = [j \in JobIds |-> "extract"]
    /\ Rest
    /\ track = FALSE
    /\ faulty = FALSE
    /\ formats = << >>
HookNext == \E j \in JobIds : Hook(j)
SpecHook == InitHook /\ [][HookNext]_vars

\* One probe of a URL whose formats are any of ProbeInputs.
InitProbe ==
    /\ Loaded
    /\ track = FALSE
    /\ faulty = FALSE
    /\ formats \in ProbeInputs \ { << >> }
SpecProbe == InitProbe /\ [][GetVideoInfo]_vars

\* ================================================================ claims
\* /progress reports {'status': 'completed', 'percent': 100} for j
ReportsCompleted(j) == ProgressGet(j) = CompletedRec
\* /file finds an artifact for j whose file is still on disk
ValidArtifact(j) == CacheGet(j) # EmptyDict /\ Exists(CacheGet(j).filepath)
Cached(j) == j \in DOMAIN download_cache

\* C1 as stated: whenever the stores can be looked up (the lock is free),
\* /progress reports completed/100 for a job exactly when /file would find
\* an artifact of that job whose file still exists on disk.
C1_CompletedIffValidArtifact ==
    lock = Free => \A j \in JobIds : ReportsCompleted(j) <=> ValidArtifact(j)

\* C1 amended: whenever the stores can be looked up, /progress reports
\* completed/100 for a job exactly when download_cache holds an entry for
\* it; the entry's file may already have been unlinked by the sweeper, so a
\* valid artifact implies completed/100 but not the other way round.
C1_CompletedIffCached ==
    lock = Free =>
        \A j \in JobIds :
            /\ ReportsCompleted(j) <=> Cached(j)
            /\ ValidArtifact(j) => ReportsCompleted(j)

\* C1's case: a job is reported completed and its artifact is valid.
C1_Witness ==
    /\ lock = Free
    /\ \E j \in JobIds : ReportsCompleted(j) /\ ValidArtifact(j)

\* C2: the artifact insert and the completed/100 write happen inside one
\* holding of progress_lock, and so do the sweeper's two deletes: in any
\* state where a job's cache entry and its completed status disagree, the
\* lock is held by the thread that is between its two writes (the job's own
\* worker, or the sweeper evicting that job), so no thread that takes the
\* lock to read can see completed without a cache entry.
C2_AtomicUnderLock ==
    \A j \in JobIds :
        /\ (Cached(j) /\ ~ReportsCompleted(j)) =>
               (lock = WorkerT(j) /\ pc[j] = "c_progress")
        /\ (ReportsCompleted(j) /\ ~Cached(j)) =>
               (lock = SweeperT /\ spc = "evict" /\ cur = j)

\* C2's case: the sweeper has deleted the cache entry of a completed job and
\* not yet its progress entry.
C2_Witness ==
    \E j \in JobIds : ReportsCompleted(j) /\ ~Cached(j) /\ lock = SweeperT
Failed(j) == pc[j] = "failed"
\* The step of job j that raises, and the step that handles the exception.
Raises(j) == pc[j] # "except" /\ pc'[j] = "except"
Handles(j) == pc[j] = "except" /\ pc'[j] = "failed"
OthersUnchanged(j) ==
    /\ download_cache' = download_cache
    /\ \A k \in JobIds \ {j} :
          /\ (k \in DOMAIN progress_data') = (k \in DOMAIN progress_data)
          /\ k \in DOMAIN progress_data => progress_data'[k] = progress_data[k]

\* C4: a job whose unit of work failed has the record error/0% with a
\* message and no cache entry, for as long as the run goes on; the raising
\* step stores nothing, and the handling step changes nothing but that
\* job's own progress record.
C4_FailureIsolated ==
    /\ [](\A j \in JobIds :
             Failed(j) =>
                 /\ ~Cached(j)
                 /\ j \in DOMAIN progress_data
                 /\ DOMAIN progress_data[j] = {"status", "percent", "message"}
                 /\ progress_data[j].status = "error"
                 /\ progress_data[j].percent = 0)
    /\ [][\A j \in JobIds :
             /\ Raises(j) => stores' = stores
             /\ Handles(j) =>
                    /\ OthersUnchanged(j)
                    /\ files' = files
                    /\ progress_data'[j].message = exc[j]]_vars

\* C4's case: one job has failed because its output file was not found,
\* while another has completed and kept its artifact.
C4_Witness ==
    \E j, k \in JobIds :
        /\ Failed(j)
        /\ progress_data[j].message = "Downloaded file not found"
        /\ pc[k] = "completed" /\ ReportsCompleted(k) /\ ValidArtifact(k)

\* The step in which /progress looks an id up, and the one in which it
\* answers.
Looks == ppc = "idle" /\ ppc' = "looked"
Answers == ppc = "looked" /\ ppc' = "idle"

\* C5: a /progress lookup of an id that is not in progress_data yields
\* exactly {status: unknown, percent: 0}, which is still what the handler
\* holds when it answers, and neither the lookup nor the answer changes
\* progress_data or download_cache.
C5_UnknownQuery ==
    [][ /\ (Looks /\ pjob' \notin DOMAIN progress_data) =>
               /\ pdata' = UnknownRec
               /\ progress_data' = progress_data
               /\ download_cache' = download_cache
        /\ (ppc = "looked" /\ pdata = UnknownRec /\ ppc' = "looked") =>
               pdata' = UnknownRec
        /\ Answers => progress_data' = progress_data /\ download_cache' = download_cache
      ]_vars

\* C5's case: the id of an evicted job, and an id never submitted, get the
\* placeholder.
C5_Witness ==
    /\ ppc = "looked"
    /\ pdata = UnknownRec
    /\ pjob \in swept \cup {UnknownId}
    /\ swept # {}

\* C6: every percent stored in progress_data lies in 0..100.
C6_PercentInRange ==
    \A j \in DOMAIN progress_data :
        "percent" \in DOMAIN progress_data[j] => progress_data[j].percent \in 0..100

\* C7: a /file request never ends with the generator failing to open the
\* file after the handler has returned its success response.
C7_FetchNeverBroken == fpc # "broken"

\* The last step of a sweeper cycle, taken with no store changed by another
\* thread since the previous cycle ended.
SecondCycleEnds == spc = "evict" /\ spc' = "sleep" /\ cycles = 1 /\ quiet

\* C8 as stated: a second cycle, with nothing changed by others in between,
\* leaves the directory and both dictionaries as the first cycle left them.
C8_Idempotent ==
    [][ SecondCycleEnds =>
            /\ files' = post.files
            /\ download_cache' = post.download_cache
            /\ progress_data' = post.progress_data ]_vars

\* What is left of dictionary d once the keys in gone are deleted.
Without(d, gone) == [x \in DOMAIN d \ gone |-> d[x]]

\* C8 amended: a second cycle, with nothing changed by others in between,
\* removes exactly the files whose age and the cache/progress entries whose
\* timestamp age passed MAX_FILE_AGE by the second cycle's clock reading,
\* and leaves everything else as the first cycle left it.
C8_SecondCycleRemovesOnlyAged ==
    [][ SecondCycleEnds =>
            LET agedFiles == {f \in DOMAIN post.files :
                                current_time - post.files[f].mtime > MAX_FILE_AGE}
                agedJobs == {j \in DOMAIN post.download_cache :
                                current_time - post.download_cache[j].timestamp
                                    > MAX_FILE_AGE}
            IN /\ files' = Without(post.files, agedFiles)
               /\ download_cache' = Without(post.download_cache, agedJobs)
               /\ progress_data' = Without(post.progress_data, agedJobs) ]_vars

\* C8's case: a second undisturbed cycle is about to end, having removed a
\* file and an entry and kept another entry.
C8_Witness ==
    /\ spc = "evict" /\ stale = {} /\ cur = NoJob
    /\ cycles = 1 /\ quiet
    /\ DOMAIN files # DOMAIN post.files
    /\ DOMAIN download_cache # DOMAIN post.download_cache
    /\ download_cache # EmptyDict

\* A direct-proxy request is over.
ProxyOver(r) == xpc[r] \in {"r500", "done", "upstream_error", "aborted"}

\* C9: when a direct-proxy request is over, its upstream connection, if one
\* was opened, has been closed.
C9_ConnectionReleased ==
    \A r \in Requests : ProxyOver(r) => conn[r] # "open"

\* C10: the artifact recorded for a job points at the file that job wrote.
C10_OwnFile ==
    \A j \in DOMAIN download_cache : download_cache[j].filepath = FileName(j)

\* ---- C11
\* The entries the loop over the formats collected for one list, and the
\* resolution (height) or bitrate (whole kbps) of the format an entry of
\* that list was made from.
Collected(video) == Collect(formats, video)
Labels(video) == { Collected(video)[k].quality : k \in 1..Len(Collected(video)) }
Measure(e, video) ==
    LET k == CHOOSE k \in 1..Len(formats) :
                 IF video
                 THEN IsVideo(formats[k]) /\ VideoQuality(formats[k]) = e.quality
                 ELSE IsAudio(formats[k]) /\ AudioQuality(formats[k]) = e.quality
    IN IF video THEN formats[k].height ELSE formats[k].abr \div 10
ListOk(out, video, cap) ==
    LET src == Collected(video)
        n == Cardinality(Labels(video))
    IN /\ Len(out) = IF n < cap THEN n ELSE cap
       /\ \A i, k \in 1..Len(out) : i # k => out[i].quality # out[k].quality
       /\ \A i \in 1..Len(out) :
             \E k \in 1..Len(src) :
                 /\ src[k] = out[i]
                 /\ \A m \in 1..(k - 1) : src[m].quality # out[i].quality
       /\ \A i, k \in 1..Len(out) :
             i < k => Measure(out[i], video) > Measure(out[k], video)
       /\ \A q \in Labels(video) :
             (\A i \in 1..Len(out) : out[i].quality # q)
                 => \A i \in 1..Len(out) :
                        Measure(out[i], video) > Measure([quality |-> q], video)
\* C11: whatever formats the engine reports, the video list and the audio
\* list probe returns hold one entry per quality label, that entry being the
\* first of its label in input order, in strictly descending order of
\* resolution (video) or bitrate (audio), cut to the 15 highest video and
\* the 10 highest audio entries.
C11_ProbeLists ==
    info # EmptyDict =>
        /\ ListOk(info.video_formats, TRUE, VIDEO_CAP)
        /\ ListOk(info.audio_formats, FALSE, AUDIO_CAP)
\* A probe that met a repeated video label, more video labels than the cap
\* and more audio labels than the cap.
C11_Witness ==
    /\ info # EmptyDict
    /\ Len(Collected(TRUE)) > Cardinality(Labels(TRUE))
    /\ Cardinality(Labels(TRUE)) > VIDEO_CAP
    /\ Len(info.video_formats) = VIDEO_CAP
    /\ Cardinality(Labels(FALSE)) > AUDIO_CAP
    /\ Len(info.audio_formats) = AUDIO_CAP

\* ---- C12
Terminal(j) ==
    /\ j \in DOMAIN progress_data
    /\ progress_data[j].status \in {"completed", "error"}
\* The sweeper finishes a cycle with this step.
CycleEnds == spc = "evict" /\ spc' = "sleep"
\* C12: a job record that became terminal more than MAX_FILE_AGE before the
\* clock reading of a sweeper cycle is absent from progress_data when that
\* cycle ends (so a terminal record is destroyed once expired, as long as
\* the sweeper keeps running).
C12_ExpiredIsSwept ==
    [][CycleEnds =>
          \A j \in JobIds :
              (Terminal(j) /\ current_time - doneAt[j] > MAX_FILE_AGE)
                  => j \notin DOMAIN progress_data']_vars

\* ---- C13
\* The statement thread j executes next is a file-system call:
\* downloaded_file.stat() of line 270.
AtFileSystemCall(j) == pc[j] = "c_stat"
\* C13: a thread that holds progress_lock is never at a file-system or
\* network operation.
C13_NoIOUnderLock ==
    \A j \in JobIds : lock = WorkerT(j) => ~AtFileSystemCall(j)

\* ---- C14
\* C14: the record a /progress request is about to return is a value the
\* job's record in progress_data had at some instant since the request's
\* lookup, whatever the hook and the other writers did in between.
C14_ConsistentSnapshot == ppc = "looked" => pdata \in phist
\* The hook has updated the record between the lookup and the answer.
C14_Witness ==
    /\ ppc = "looked"
    /\ plive
    /\ StartingRec \in phist
    /\ pdata # StartingRec
    /\ pdata.status \in {"downloading", "processing"}

\* ---- C15
\* C15: while the sweeper is in its eviction block, a cache entry goes only
\* if its timestamp age at the cycle's clock reading exceeds MAX_FILE_AGE,
\* a progress entry goes only as the entry of the job whose cache entry
\* was just evicted, and every entry that stays is unchanged; when the
\* block ends no cache entry of that age is left, and no evicted job has a
\* cache or a progress entry.
C15_EvictionExact ==
    [][spc = "evict" =>
          /\ \A j \in DOMAIN download_cache :
                j \notin DOMAIN download_cache' => EntryStale(j, current_time)
          /\ \A j \in DOMAIN download_cache' :
                j \in DOMAIN download_cache /\ download_cache'[j] = download_cache[j]
          /\ \A j \in DOMAIN progress_data :
                j \notin DOMAIN progress_data' => (j = cur /\ j \notin DOMAIN download_cache)
          /\ \A j \in DOMAIN progress_data' :
                j \in DOMAIN progress_data /\ progress_data'[j] = progress_data[j]
          /\ CycleEnds =>
                /\ \A j \in DOMAIN download_cache' :
                      ~(current_time - download_cache'[j].timestamp > MAX_FILE_AGE)
                /\ \A j \in swept' :
                      j \notin DOMAIN download_cache' /\ j \notin DOMAIN progress_data'
      ]_vars
\* The sweeper is between the two deletions of a stale job while another
\* job is running or has failed.
C15_Witness ==
    /\ spc = "evict"
    /\ cur # NoJob
    /\ \E k \in JobIds :
          /\ k \in DOMAIN progress_data
          /\ progress_data[k].status \in {"starting", "downloading", "processing", "error"}

\* ---- C16
\* C16: when the handling of a directory entry raises, the scan goes on
\* with the remaining entries; by the time the scan is over every stale
\* file is deleted except those whose own handling raised; the cycle then
\* evicts every stale cache entry and goes back to sleep, from where the
\* next cycle starts.
C16_SweepSurvivesFailure ==
    [][/\ (spc = "scan" /\ failed' # failed) =>
              /\ spc' = "scan"
              /\ \E f \in todo : todo' = todo \ {f} /\ failed' = failed \cup {f}
       /\ (spc = "scan" /\ spc' = "evict") =>
              \A f \in DOMAIN files : FileStale(f, current_time) => f \in failed
       /\ (CycleEnds /\ failed # {}) =>
              /\ \A j \in DOMAIN download_cache' :
                    ~(current_time - download_cache'[j].timestamp > MAX_FILE_AGE)
              /\ lock' = Free
      ]_vars
\* The scan is over: the handling of one stale file raised, the stale file
\* of a job was deleted all the same, and stale entries are being evicted.
C16_Witness ==
    /\ spc = "evict"
    /\ \E f \in failed : f \in DOMAIN files /\ FileStale(f, current_time)
    /\ \E j \in stale \cap DOMAIN download_cache :
          download_cache[j].filepath \notin DOMAIN files

\* ---- C17
\* The hook of job j is called in this step.
HookStep(j) == nevents'[j] = nevents[j] + 1
\* The record an event makes of rec: downloading sets status downloading
\* with the percent computed from the event (0 when the total is unknown),
\* finished sets processing at 99%, any other event changes nothing.
Applied(rec, d) ==
    IF d.status = "downloading"
    THEN Update(rec, [status |-> "downloading",
                      percent |-> Percent(d.downloaded_bytes, Total(d)),
                      speed |-> 0, eta |-> 0])
    ELSE IF d.status = "finished"
         THEN Update(rec, [status |-> "processing", percent |-> 99])
         ELSE rec
\* C17: from its starting record to its terminal record, the record of a
\* job changes only when the job's hook is called, each call making of it
\* the record the event it received prescribes, and a call changes the
\* record of no other job.
C17_EventsInOrder ==
    [][\A j \in JobIds :
          /\ HookStep(j) =>
                /\ progress_data'[j] = Applied(progress_data[j], last'[j])
                /\ \A k \in JobIds \ {j} :
                      /\ k \in DOMAIN progress_data <=> k \in DOMAIN progress_data'
                      /\ k \in DOMAIN progress_data => progress_data'[k] = progress_data[k]
          /\ (pc[j] = "extract" /\ pc'[j] = "extract" /\ ~HookStep(j)) =>
                progress_data'[j] = progress_data[j]
      ]_vars

\* ---- C18
\* C18: a job whose download_video call has begun gets a terminal record
\* (completed or error), whether or not anyone polls it or fetches its
\* file and whatever the sweeper does.
C18_StartedTerminates ==
    \A j \in JobIds : (pc[j] = "start") ~> Terminal(j)
\* A job became terminal with a poll in flight, a sweeper cycle having run.
C18_Witness ==
    /\ \E j \in JobIds : Terminal(j)
    /\ ppc = "looked"
    /\ cycles = 1

\* ---- C19
\* C19: once the record of a job says completed or error, a step either
\* leaves that record as it is or is the sweeper's removal of it from
\* progress_data during eviction.
C19_TerminalStable ==
    [][\A j \in JobIds :
          Terminal(j) =>
              \/ j \in DOMAIN progress_data' /\ progress_data'[j] = progress_data[j]
              \/ j \notin DOMAIN progress_data' /\ lock = SweeperT /\ cur = j
      ]_vars
\* One job is terminal while the hook of the other has been called.
C19_Witness ==
    \E j, k \in JobIds :
        /\ j # k
        /\ Terminal(j)
        /\ pc[k] = "extract"
        /\ nevents[k] > 0
        /\ progress_data[k].status \in {"downloading", "processing"}

\* ---- C20
WellFormed(rec) ==
    /\ {"status", "percent"} \subseteq DOMAIN rec
    /\ rec.status \in {"starting", "downloading", "processing", "completed", "error"}
====
